---- MODULE Spec2Model ----
(***************************************************************************)
(* SoundCloud DJ collection tracker.                                       *)
(*                                                                         *)
(* soundcloud_flow.py: the sync script.  create_new_df reads the persisted *)
(* catalog, pages through the liked tracks and the playlists of the remote *)
(* account, hands the tracks to add_track and writes the new catalog.      *)
(* djapp.py: the terminal application.  It holds the catalog in memory,    *)
(* applies the edits of the edit dialog, and runs the sync script in a     *)
(* background worker, reloading the catalog when the script has exited.    *)
(*                                                                         *)
(* Python values are modelled as follows.  A str is a sequence of          *)
(* one-character strings, so that strip(), the substring test `in` and     *)
(* split(",") are computed rather than assumed.  A value that may be None  *)
(* is wrapped: None is <<>>, a value v is <<v>>.  A dict is a sequence of  *)
(* records with distinct keys, in insertion order; a JSON object is a      *)
(* function whose DOMAIN is the set of keys it carries.                    *)
(***************************************************************************)
EXTENDS Integers, Sequences, FiniteSets, Bags, TLC

\* ------------------------------------------------------------------ bounds

\* Requests answered with a next_href, per collection, in one pass.
MaxPages == 2
\* Tracks in one page of liked tracks, and in one playlist.
MaxPageLen == 1
\* Presses of the refresh button (the refresh started at mount comes first).
MaxRefresh == 1
\* Edits saved in the edit dialog.
MaxEdits == 1
\* Runs of the script, one after the other, against the same remote account.
MaxRuns == 2

\* ------------------------------------------------------------ Python values

None == <<>>
Some(v) == <<v>>
Val(o) == o[1]

\* The whitespace str.strip() removes (the inputs drawn here use the space).
IsSpace(c) == c = " "

RECURSIVE lstrip(_)
lstrip(s) ==
    IF s # <<>> /\ IsSpace(Head(s)) THEN lstrip(Tail(s)) ELSE s

RECURSIVE rstrip(_)
rstrip(s) ==
    IF s # <<>> /\ IsSpace(s[Len(s)]) THEN rstrip(SubSeq(s, 1, Len(s) - 1)) ELSE s

\* str.strip()
strip(s) == rstrip(lstrip(s))

\* str.lower(), on the letters the titles and queries drawn here use.
lower_char(c) ==
    CASE c = "A" -> "a" [] c = "B" -> "b" [] c = "D" -> "d" [] c = "H" -> "h"
      [] OTHER -> c

lower(s) == [i \in DOMAIN s |-> lower_char(s[i])]

\* `needle in hay` on two str values: the substring test.
str_contains(hay, needle) ==
    \E i \in 0..(Len(hay) - Len(needle)) :
        SubSeq(hay, i + 1, i + Len(needle)) = needle

\* dict.get(key): None when the key is missing.
Get(d, key) == IF key \in DOMAIN d THEN d[key] ELSE None

\* Truthiness of an optional str: None and "" are falsy.
Truthy(o) == o # None /\ Val(o) # <<>>

\* --------------------------------------------------------------- the dicts

Keys(d) == {d[i].id : i \in DOMAIN d}

HasKey(d, k) == k \in Keys(d)

IndexOf(d, k) == CHOOSE i \in DOMAIN d : d[i].id = k

Lookup(d, k) == d[IndexOf(d, k)]

\* d[k] = v on an insertion-ordered dict.
DictSet(d, k, v) ==
    IF HasKey(d, k) THEN [d EXCEPT ![IndexOf(d, k)] = v] ELSE Append(d, v)

\* ------------------------------------------------------------ record model

LIKED == <<"l", "i", "k", "e", "d">>
SEP == <<",", " ">>

has_non_default_purchase_url(purchase_url) ==
    purchase_url # None /\ strip(Val(purchase_url)) # <<>>

\* A variant that looks at the price alone.
is_track_processed_no_url(price, purchase_url) ==
    price # None

is_track_processed(price, purchase_url) ==
    price # None /\ has_non_default_purchase_url(purchase_url)

\* ------------------------------------------------------------- add_track

\* add_track raises KeyError on track["id"] when the record carries no id.
add_track_raises(track) ==
    track.kind = "track" /\ "id" \notin DOMAIN track

\* A variant that never consults the lookup of the prior catalog.
owned_ignoring_old(track, old_tracks) ==
    [purchased |-> FALSE, price |-> None,
     purchase_url |-> Get(track, "purchase_url")]

\* A variant that inverts the purchased flag it finds in the lookup.
owned_for_negated(track, old_tracks) ==
    IF track.id \in DOMAIN old_tracks
    THEN [purchased |-> ~old_tracks[track.id].purchased,
          price |-> old_tracks[track.id].price,
          purchase_url |-> old_tracks[track.id].purchase_url]
    ELSE [purchased |-> FALSE, price |-> None,
          purchase_url |-> Get(track, "purchase_url")]

\* A variant that gives a record without entry in the lookup no purchase_url.
owned_for_no_remote_url(track, old_tracks) ==
    IF track.id \in DOMAIN old_tracks
    THEN [purchased |-> old_tracks[track.id].purchased,
          price |-> old_tracks[track.id].price,
          purchase_url |-> old_tracks[track.id].purchase_url]
    ELSE [purchased |-> FALSE, price |-> None, purchase_url |-> None]

\* Lines 60-66: the owned fields of a new record: the prior catalog's when the
\* lookup has the identifier, else the defaults and the remote record's
\* purchase_url.
owned_for(track, old_tracks) ==
    IF track.id \in DOMAIN old_tracks
    THEN [purchased |-> old_tracks[track.id].purchased,
          price |-> old_tracks[track.id].price,
          purchase_url |-> old_tracks[track.id].purchase_url]
    ELSE [purchased |-> FALSE, price |-> None,
          purchase_url |-> Get(track, "purchase_url")]

new_record(track, old_tracks) ==
    LET owned == owned_for(track, old_tracks)
    IN  [title |-> Get(track, "title"),
         id |-> track.id,
         purchase_url |-> owned.purchase_url,
         purchased |-> owned.purchased,
         price |-> owned.price,
         processed |-> is_track_processed(owned.price, owned.purchase_url),
         soundcloud_url |-> Get(track, "permalink_url"),
         playlists |-> LIKED,
         artist |-> Get(Get(track, "user"), "username"),
         genre |-> Get(track, "genre")]

\* The record of an identifier seen again in the pass: the label is appended
\* unless the playlists string already contains it as a substring.
with_label(rec, playlist_name) ==
    IF playlist_name = None
    THEN IF ~str_contains(rec.playlists, LIKED)
         THEN [rec EXCEPT !.playlists = @ \o SEP \o LIKED]
         ELSE rec
    ELSE IF ~str_contains(rec.playlists, Val(playlist_name))
         THEN [rec EXCEPT !.playlists = @ \o SEP \o Val(playlist_name)]
         ELSE rec

\* A variant without the kind test of line 52.
add_track_any_kind(track, all_tracks, old_tracks, playlist_name) ==
    IF "id" \notin DOMAIN track THEN all_tracks
    ELSE IF HasKey(all_tracks, track.id)
    THEN DictSet(all_tracks, track.id,
                 with_label(Lookup(all_tracks, track.id), playlist_name))
    ELSE DictSet(all_tracks, track.id, new_record(track, old_tracks))

\* A variant in which the record seen again takes the fields of the later
\* observation.
add_track_last_wins(track, all_tracks, old_tracks, playlist_name) ==
    IF track.kind # "track" THEN all_tracks
    ELSE IF HasKey(all_tracks, track.id)
    THEN DictSet(all_tracks, track.id,
                 [new_record(track, old_tracks) EXCEPT
                     !.playlists = with_label(Lookup(all_tracks, track.id),
                                              playlist_name).playlists])
    ELSE DictSet(all_tracks, track.id, new_record(track, old_tracks))

\* add_track on a record it does not raise on: the new all_tracks.
add_track(track, all_tracks, old_tracks, playlist_name) ==
    IF track.kind # "track" THEN all_tracks
    ELSE IF HasKey(all_tracks, track.id)
    THEN DictSet(all_tracks, track.id,
                 with_label(Lookup(all_tracks, track.id), playlist_name))
    ELSE DictSet(all_tracks, track.id, new_record(track, old_tracks))

\* ----------------------------------------------------------- create_new_df

\* Lines 93-112: the owned fields of the prior catalog, keyed by identifier;
\* a row whose owned fields are all defaults is left out.
is_default_row(row) ==
    /\ row.price = None
    /\ row.purchased = FALSE
    /\ ~has_non_default_purchase_url(row.purchase_url)

load_old_tracks(old_df) ==
    [k \in {old_df[i].id : i \in {j \in DOMAIN old_df : ~is_default_row(old_df[j])}} |->
        [price |-> Lookup(old_df, k).price,
         purchased |-> Lookup(old_df, k).purchased,
         purchase_url |-> Lookup(old_df, k).purchase_url]]

\* for track in tracks: add_track(track, all_tracks, old_tracks, playlist_name)
\* The result carries raised = TRUE when add_track raised on a record.
RECURSIVE add_tracks(_, _, _, _)
add_tracks(tracks, all_tracks, old_tracks, playlist_name) ==
    IF tracks = <<>> THEN [raised |-> FALSE, all_tracks |-> all_tracks]
    ELSE IF add_track_raises(Head(tracks))
    THEN [raised |-> TRUE, all_tracks |-> all_tracks]
    ELSE add_tracks(Tail(tracks),
                    add_track(Head(tracks), all_tracks, old_tracks, playlist_name),
                    old_tracks, playlist_name)

\* for playlist in playlists["collection"]: for track in playlist["tracks"]: ...
RECURSIVE add_playlists(_, _, _)
add_playlists(playlists, all_tracks, old_tracks) ==
    IF playlists = <<>> THEN [raised |-> FALSE, all_tracks |-> all_tracks]
    ELSE LET r == add_tracks(Head(playlists).tracks, all_tracks, old_tracks,
                             Some(Head(playlists).title))
         IN  IF r.raised THEN r
             ELSE add_playlists(Tail(playlists), r.all_tracks, old_tracks)

\* The while condition of both loops: the response body carries a next_href.
has_next(resp) == Truthy(Get(resp.json, "next_href"))

\* One response of the liked-tracks loop (lines 118-134): its page is handed
\* to add_track only when the body carries a next_href.
liked_step(resp, all_tracks, old_tracks) ==
    IF has_next(resp)
    THEN add_tracks(resp.json.collection, all_tracks, old_tracks, None)
    ELSE [raised |-> FALSE, all_tracks |-> all_tracks]

\* One response of the playlists loop (lines 137-155).
playlists_step(resp, all_tracks, old_tracks) ==
    IF has_next(resp)
    THEN add_playlists(resp.json.collection, all_tracks, old_tracks)
    ELSE [raised |-> FALSE, all_tracks |-> all_tracks]

\* ------------------------------------------------------- the remote account

DH == <<"D", "H">>
H == <<"H">>
PlaylistNames == {DH, H}

TrackA ==
    [kind |-> "track", id |-> 1, title |-> Some(<<"A">>),
     purchase_url |-> Some(<<"v">>), permalink_url |-> Some("sc/1"),
     user |-> [username |-> Some("dj")], genre |-> Some("house")]

\* The same identifier, as another collection delivers it.
TrackA2 ==
    [kind |-> "track", id |-> 1, title |-> Some(<<"a", "2">>),
     permalink_url |-> Some("sc/1"), genre |-> None]

TrackB ==
    [kind |-> "track", id |-> 2, title |-> Some(<<"b">>),
     purchase_url |-> Some(<<" ">>), permalink_url |-> Some("sc/2"),
     user |-> [username |-> None], genre |-> Some("techno")]

\* A playlist delivered as an item of a collection.
PlaylistItem ==
    [kind |-> "playlist", id |-> 2, title |-> Some(<<"p">>)]

\* A track record without identifier.
NoIdTrack ==
    [kind |-> "track", title |-> Some(<<"x">>)]

RemoteTracks == {TrackA, TrackA2, TrackB, PlaylistItem, NoIdTrack}

TrackIds == {1, 2}

SeqsUpTo(S, n) == UNION {[1..k -> S] : k \in 0..n}

TrackLists == SeqsUpTo(RemoteTracks, MaxPageLen)

Playlists == {[title |-> name, tracks |-> ts] : name \in PlaylistNames, ts \in TrackLists}

PlaylistLists == {<<>>} \cup {<<p>> : p \in Playlists}

\* The responses of requests.get: the code reads only .json().
Page(collection, more) ==
    [status_code |-> 200,
     json |-> IF more THEN [collection |-> collection, next_href |-> Some(<<"n">>)]
              ELSE [collection |-> collection, next_href |-> None]]

\* A non-success response with a JSON error body.
ErrorResponse == [status_code |-> 401, json |-> [code |-> 401]]

LikedResponses ==
    {Page(c, more) : c \in TrackLists, more \in BOOLEAN} \cup {ErrorResponse}

PlaylistsResponses ==
    {Page(c, more) : c \in PlaylistLists, more \in BOOLEAN} \cup {ErrorResponse}

\* ------------------------------------------------------ the prior catalogs

\* The owned fields a record can carry: as add_track creates it, or as the
\* edit dialog delivers them (a purchase_url that is None or stripped and
\* non-empty).
OwnedAtCreation ==
    {[purchased |-> FALSE, price |-> None, purchase_url |-> u] :
        u \in {None, Some(<<>>), Some(<<" ">>), Some(<<"v">>)}}

OwnedByEdit ==
    {[purchased |-> b, price |-> p, purchase_url |-> u] :
        b \in BOOLEAN, p \in {None, Some(5)}, u \in {None, Some(<<"u">>)}}

OwnedValues == OwnedAtCreation \cup OwnedByEdit

PriorRecord(id, owned, playlists) ==
    [title |-> Some(<<"o", "l", "d">>),
     id |-> id,
     purchase_url |-> owned.purchase_url,
     purchased |-> owned.purchased,
     price |-> owned.price,
     processed |-> owned.price # None /\ owned.purchase_url # None,
     soundcloud_url |-> Some("sc/old"),
     playlists |-> playlists,
     artist |-> Some("dj"),
     genre |-> None]

\* The file create_new_df finds: none (an empty catalog here), or a catalog
\* an earlier pass and the edits since have left.
PriorCatalogs ==
    {<<>>}
    \cup {<<PriorRecord(1, o, LIKED)>> : o \in OwnedValues}
    \cup {<<PriorRecord(1, o, LIKED), PriorRecord(2, o2, LIKED \o SEP \o DH)>> :
            o \in {[purchased |-> FALSE, price |-> None, purchase_url |-> Some(<<>>)],
                   [purchased |-> TRUE, price |-> None, purchase_url |-> None]},
            o2 \in {[purchased |-> FALSE, price |-> None, purchase_url |-> None],
                    [purchased |-> TRUE, price |-> Some(5), purchase_url |-> Some(<<"u">>)]}}

\* ------------------------------------------------- the pass, start to end

\* The loops of create_new_df over the responses the requests of one pass are
\* answered with, in order: a request beyond the list raises.
RECURSIVE liked_loop(_, _, _, _)
liked_loop(resps, all_tracks, old_tracks, err) ==
    IF resps = <<>> THEN [raised |-> TRUE, all_tracks |-> all_tracks, saw_error |-> TRUE]
    ELSE LET r == liked_step(Head(resps), all_tracks, old_tracks)
             e == err \/ Head(resps).status_code # 200
         IN  IF r.raised
             THEN [raised |-> TRUE, all_tracks |-> r.all_tracks, saw_error |-> e]
             ELSE IF has_next(Head(resps))
             THEN liked_loop(Tail(resps), r.all_tracks, old_tracks, e)
             ELSE [raised |-> FALSE, all_tracks |-> r.all_tracks, saw_error |-> e]

RECURSIVE playlists_loop(_, _, _, _)
playlists_loop(resps, all_tracks, old_tracks, err) ==
    IF resps = <<>> THEN [raised |-> TRUE, all_tracks |-> all_tracks, saw_error |-> TRUE]
    ELSE LET r == playlists_step(Head(resps), all_tracks, old_tracks)
             e == err \/ Head(resps).status_code # 200
         IN  IF r.raised
             THEN [raised |-> TRUE, all_tracks |-> r.all_tracks, saw_error |-> e]
             ELSE IF has_next(Head(resps))
             THEN playlists_loop(Tail(resps), r.all_tracks, old_tracks, e)
             ELSE [raised |-> FALSE, all_tracks |-> r.all_tracks, saw_error |-> e]

\* Lines 115-157 of create_new_df against one remote account.
fetch_all(remote, old_tracks) ==
    LET l == liked_loop(remote.liked, <<>>, old_tracks, FALSE)
    IN  IF l.raised THEN l
        ELSE playlists_loop(remote.playlists, l.all_tracks, old_tracks, l.saw_error)

\* What the remote account answers during one run of the script.
RemoteFull ==
    [liked |-> <<Page(<<TrackA>>, TRUE), Page(<<TrackB>>, TRUE), Page(<<>>, FALSE)>>,
     playlists |-> <<Page(<<[title |-> DH, tracks |-> <<TrackA2>>]>>, TRUE),
                     Page(<<>>, FALSE)>>]

\* Track 2 is no longer delivered in a page that is followed by another.
RemoteOnlyA ==
    [liked |-> <<Page(<<TrackA>>, TRUE), Page(<<TrackB>>, FALSE)>>,
     playlists |-> <<Page(<<>>, FALSE)>>]

\* Both collections fit in one page.
RemoteSinglePage ==
    [liked |-> <<Page(<<TrackA>>, FALSE)>>,
     playlists |-> <<Page(<<[title |-> DH, tracks |-> <<TrackB>>]>>, FALSE)>>]

\* The second request of the liked tracks, and those after it, are refused.
RemoteRefusing ==
    [liked |-> <<Page(<<TrackA>>, TRUE), ErrorResponse>>,
     playlists |-> <<ErrorResponse>>]

\* The connection drops during the playlists.
RemoteDown ==
    [liked |-> <<Page(<<TrackA>>, TRUE), Page(<<>>, FALSE)>>,
     playlists |-> <<>>]

Remotes == {RemoteFull, RemoteOnlyA, RemoteSinglePage, RemoteRefusing, RemoteDown}

\* Track 1 is delivered twice in the liked tracks and twice in playlist DH,
\* track 2 once in playlist H.
RemoteRepeating ==
    [liked |-> <<Page(<<TrackA>>, TRUE), Page(<<TrackA2>>, TRUE), Page(<<>>, FALSE)>>,
     playlists |-> <<Page(<<[title |-> DH, tracks |-> <<TrackA2>>]>>, TRUE),
                     Page(<<[title |-> H, tracks |-> <<TrackB>>]>>, TRUE),
                     Page(<<[title |-> DH, tracks |-> <<TrackA>>]>>, TRUE),
                     Page(<<>>, FALSE)>>]

\* The remote accounts of the repeated runs.
Accounts == Remotes \cup {RemoteRepeating}

\* ------------------------------------------------------------------- djapp

DigitChar(n) ==
    CASE n = 0 -> "0" [] n = 1 -> "1" [] n = 2 -> "2" [] n = 3 -> "3" [] n = 4 -> "4"
      [] n = 5 -> "5" [] n = 6 -> "6" [] n = 7 -> "7" [] n = 8 -> "8" [] n = 9 -> "9"

Digits == {"0", "1", "2", "3", "4", "5", "6", "7", "8", "9"}

DigitVal(c) == CHOOSE n \in 0..9 : DigitChar(n) = c

\* str(n) of a non-negative int.
RECURSIVE str_int(_)
str_int(n) ==
    IF n < 10 THEN <<DigitChar(n)>> ELSE str_int(n \div 10) \o <<DigitChar(n % 10)>>

\* float("inf"): the amounts are whole numbers, and infinity is the number
\* above every finite amount of the model; adding to it gives it again.
Inf == 1000000

INF_TEXT == <<"i", "n", "f">>

IsDigits(text) == text # <<>> /\ \A i \in DOMAIN text : text[i] \in Digits

\* float(text) on the texts drawn here: a run of digits is its value, "inf"
\* is infinity, any other text raises ValueError.
float_raises(text) ==
    ~(IsDigits(text) \/ text = INF_TEXT)

RECURSIVE float_value(_)
float_value(text) ==
    IF text = INF_TEXT THEN Inf
    ELSE IF text = <<>> THEN 0
    ELSE 10 * float_value(SubSeq(text, 1, Len(text) - 1)) + DigitVal(text[Len(text)])

\* a + b on two floats.
fadd(a, b) == IF a = Inf \/ b = Inf THEN Inf ELSE a + b

\* A variant that takes a price text float() raises on as no price.
edit_save_coercing(purchased, price_input, download_url_input) ==
    LET price_text == strip(price_input)
        download_url_text == strip(download_url_input)
        download_url == IF download_url_text # <<>> THEN Some(download_url_text) ELSE None
    IN  [dismissed |-> TRUE,
         result |-> [purchased |-> purchased,
                     price |-> IF price_text = <<>> \/ float_raises(price_text) THEN None
                               ELSE Some(float_value(price_text)),
                     download_url |-> download_url]]

\* EditTrackModal.on_button_pressed, Save: the result the dialog is dismissed
\* with, or no dismissal when the price text does not parse.
edit_save(purchased, price_input, download_url_input) ==
    LET price_text == strip(price_input)
        download_url_text == strip(download_url_input)
        download_url == IF download_url_text # <<>> THEN Some(download_url_text) ELSE None
    IN  IF price_text = <<>>
        THEN [dismissed |-> TRUE,
              result |-> [purchased |-> purchased, price |-> None,
                          download_url |-> download_url]]
        ELSE IF float_raises(price_text)
        THEN [dismissed |-> FALSE]
        ELSE [dismissed |-> TRUE,
              result |-> [purchased |-> purchased, price |-> Some(float_value(price_text)),
                          download_url |-> download_url]]

\* str.split(sep) for a one-character separator.
RECURSIVE split(_, _)
split(s, sep) ==
    IF \A i \in DOMAIN s : s[i] # sep THEN <<s>>
    ELSE LET i == CHOOSE j \in DOMAIN s : s[j] = sep /\ \A m \in 1..(j - 1) : s[m] # sep
         IN  <<SubSeq(s, 1, i - 1)>> \o split(SubSeq(s, i + 1, Len(s)), sep)

\* Lines 336-339 and 351-353: the names a playlists value is read as, each
\* part between commas stripped, the empty parts dropped.
playlist_names(playlists_value) ==
    LET parts == split(playlists_value, ",")
        stripped == [i \in DOMAIN parts |-> strip(parts[i])]
    IN  SelectSeq(stripped, LAMBDA name : name # <<>>)

\* The polars expression of _ensure_processed_column, on one row.
processed_expr(row) ==
    row.price # None
    /\ Len(strip(IF row.purchase_url = None THEN <<>> ELSE Val(row.purchase_url))) > 0

\* _ensure_processed_column: processed is re-derived on every row.
ensure_processed_column(frame) ==
    [i \in DOMAIN frame |-> [frame[i] EXCEPT !.processed = processed_expr(frame[i])]]

\* _get_track_row: the rows whose identifier, cast to text, is track_id.
matching_rows(frame, track_id) ==
    {i \in DOMAIN frame : str_int(frame[i].id) = track_id}

\* A variant that writes the result on every row.
apply_track_edits_all_rows(frame, track_id, result) ==
    [i \in DOMAIN frame |->
        [frame[i] EXCEPT !.purchased = result.purchased,
                         !.price = result.price,
                         !.purchase_url = result.download_url,
                         !.processed = result.price # None
                                       /\ result.download_url # None]]

\* A variant that keeps the old price and the old URL where the result has none.
apply_track_edits_merging(frame, track_id, result) ==
    [i \in DOMAIN frame |->
        IF str_int(frame[i].id) = track_id
        THEN LET price == IF result.price = None THEN frame[i].price ELSE result.price
                 url == IF result.download_url = None THEN frame[i].purchase_url
                        ELSE result.download_url
             IN  [frame[i] EXCEPT !.purchased = result.purchased,
                                  !.price = price,
                                  !.purchase_url = url,
                                  !.processed = price # None /\ url # None]
        ELSE frame[i]]

\* _apply_track_edits, lines 569-622, on a result that is not None.
apply_track_edits(frame, track_id, result) ==
    [i \in DOMAIN frame |->
        IF str_int(frame[i].id) = track_id
        THEN [frame[i] EXCEPT !.purchased = result.purchased,
                              !.price = result.price,
                              !.purchase_url = result.download_url,
                              !.processed = result.price # None
                                            /\ result.download_url # None]
        ELSE frame[i]]

\* DJApp constants, lines 148-154.
ALL_PLAYLISTS == <<"_", "_", "a", "l", "l", "_", "_">>
ALL_PURCHASED == "__all_purchased__"
PURCHASED_TRUE == "true"
PURCHASED_FALSE == "false"
ALL_PROCESSED == "__all_processed__"
PROCESSED_TRUE == "processed_true"
PROCESSED_FALSE == "processed_false"

\* _in_playlist, lines 345-353 (a playlists value is never None here).
in_playlist(playlists_value, selected_playlist) ==
    IF selected_playlist = ALL_PLAYLISTS THEN TRUE
    ELSE \E i \in DOMAIN playlist_names(playlists_value) :
            playlist_names(playlists_value)[i] = selected_playlist

\* _matches_purchased, lines 355-365.
matches_purchased(purchased_value, selected_purchased) ==
    IF selected_purchased = ALL_PURCHASED THEN TRUE
    ELSE IF selected_purchased = PURCHASED_TRUE THEN purchased_value
    ELSE IF selected_purchased = PURCHASED_FALSE THEN ~purchased_value
    ELSE TRUE

\* _matches_processed, lines 367-377.
matches_processed(processed_value, selected_processed) ==
    IF selected_processed = ALL_PROCESSED THEN TRUE
    ELSE IF selected_processed = PROCESSED_TRUE THEN processed_value
    ELSE IF selected_processed = PROCESSED_FALSE THEN ~processed_value
    ELSE TRUE

\* _matches_track_name, lines 379-386.
matches_track_name(track_title, query) ==
    LET normalized_query == lower(strip(query))
    IN  IF normalized_query = <<>> THEN TRUE
        ELSE IF track_title = None THEN FALSE
        ELSE str_contains(lower(Val(track_title)), normalized_query)

\* A variant of the loop body that stops at the playlist test.
row_shown_playlist_only(row, playlist, purchased, processed, query) ==
    in_playlist(row.playlists, playlist)

\* The body of the loop of _populate_table, lines 636-647: the row is added
\* unless one of the four tests sends the loop to the next row.
row_shown(row, playlist, purchased, processed, query) ==
    IF ~in_playlist(row.playlists, playlist) THEN FALSE
    ELSE IF ~matches_purchased(row.purchased, purchased) THEN FALSE
    ELSE IF ~matches_processed(row.processed, processed) THEN FALSE
    ELSE IF ~matches_track_name(row.title, query) THEN FALSE
    ELSE TRUE

\* _populate_table, lines 628-657: the keys of the rows added, in order.
populate_table(frame, playlist, purchased, processed, query) ==
    LET shown == SelectSeq(frame,
                           LAMBDA row : row_shown(row, playlist, purchased, processed, query))
    IN  [i \in DOMAIN shown |-> str_int(shown[i].id)]

\* _get_playlist_options, lines 330-343: the values of the playlist select.
get_playlist_options(frame) ==
    {ALL_PLAYLISTS} \cup
    {name \in UNION {{playlist_names(frame[i].playlists)[j] :
                         j \in DOMAIN playlist_names(frame[i].playlists)} :
                      i \in DOMAIN frame} : lower(name) # LIKED}

\* The loop of _update_value_counters, lines 522-530.
RECURSIVE value_totals(_)
value_totals(frame) ==
    IF frame = <<>> THEN [downloaded |-> 0, remaining |-> 0]
    ELSE LET t == value_totals(SubSeq(frame, 1, Len(frame) - 1))
             row == frame[Len(frame)]
             price == IF row.price = None THEN 0 ELSE Val(row.price)
         IN  IF row.purchased
             THEN [t EXCEPT !.downloaded = fadd(@, price)]
             ELSE [t EXCEPT !.remaining = fadd(@, price)]

\* Three digits of a group of thousands.
pad3(n) ==
    <<DigitChar(n \div 100), DigitChar((n \div 10) % 10), DigitChar(n % 10)>>

\* f"{x:,.2f}" of a whole amount, and of infinity.
RECURSIVE group3(_)
group3(n) ==
    IF n < 1000 THEN str_int(n) ELSE group3(n \div 1000) \o <<",">> \o pad3(n % 1000)

format_money(x) ==
    IF x = Inf THEN INF_TEXT ELSE group3(x) \o <<".", "0", "0">>

\* What the user leaves in the dialog at Save: the switch, the price text
\* and the download URL text.
Typed(purchased, price_input, download_url_input) ==
    [purchased |-> purchased, price_input |-> price_input,
     download_url_input |-> download_url_input]

EditInputs ==
    {Typed(TRUE, <<" ", "5">>, <<"u", " ">>),
     Typed(FALSE, <<>>, <<" ">>),
     Typed(TRUE, <<>>, <<>>),
     Typed(FALSE, <<"5">>, <<" ">>),
     Typed(FALSE, <<" ">>, <<"u">>),
     Typed(FALSE, <<"x">>, <<"u">>)}

\* More texts for the price box: one float() reads as infinity, one with a
\* letter after the digit, one of two digits.
DialogInputs ==
    EditInputs \cup {Typed(TRUE, INF_TEXT, <<"u">>),
                     Typed(TRUE, <<"5", "x">>, <<>>),
                     Typed(FALSE, <<"1", "2">>, <<"u">>)}

\* The catalogs the application can be started on: those a first run of the
\* script leaves (DJApp.__init__ raises on a catalog without columns).
InitialCatalogs ==
    {fetch_all(r, <<>>).all_tracks :
        r \in {q \in Remotes : ~fetch_all(q, <<>>).raised
                               /\ fetch_all(q, <<>>).all_tracks # <<>>}}

\* ------------------------------------------------------------------- state

VARIABLES
    df,          \* DJApp.df: the catalog in memory
    status,      \* the text of the #refresh-status label
    app,         \* "init" before on_mount, "running", "crashed"
    modal,       \* the edit dialog: None, or the track_id and error text state
    workers,     \* the _refresh_soundcloud_data workers started so far
    edits,       \* edits saved so far
    last_edit,   \* history: per identifier, the owned values of its last saved edit
    typed,       \* history: the price text at the last Save press; None once a dialog is opened
    current_playlist,   \* DJApp.current_playlist
    current_purchased,  \* DJApp.current_purchased
    current_processed,  \* DJApp.current_processed
    track_name_query,   \* DJApp.track_name_query
    table,       \* the row keys of #tracks-table, in order
    counters,    \* the amounts the #downloaded-value and #remaining-value labels show

    disk,        \* data/tracks.parquet: the persisted catalog, a sequence of rows
    phase,       \* create_new_df: the position of the pass
    old_df,      \* create_new_df: the catalog read at line 94
    old_tracks,  \* create_new_df: the owned-field lookup
    all_tracks,  \* create_new_df: the working catalog
    pages,       \* responses with a next_href received for the current collection
    observed,    \* history: <<identifier, context>> of the track records add_track took
    first_ctx,   \* history: the context each identifier was first observed in
    skipped,     \* history: the identifiers of the records of another kind handed over
    account,     \* repeated runs: what the remote account answers, the same in every run
    runs         \* repeated runs: the runs of the script so far

pass_vars ==
    <<disk, phase, old_df, old_tracks, all_tracks, pages, observed, first_ctx,
      skipped>>

view_vars ==
    <<current_playlist, current_purchased, current_processed, track_name_query,
      table, counters>>

app_vars == <<df, status, app, modal, workers, edits, last_edit, typed, view_vars>>

repeat_vars == <<account, runs>>

vars == <<pass_vars, app_vars, repeat_vars>>

\* --------------------------------------------------------------- history

\* The records of a list add_track is called on: those up to the first it raises on.
RECURSIVE taken(_)
taken(tracks) ==
    IF tracks = <<>> \/ add_track_raises(Head(tracks)) THEN <<>>
    ELSE <<Head(tracks)>> \o taken(Tail(tracks))

raises_in(tracks) == \E i \in DOMAIN tracks : add_track_raises(tracks[i])

observe_tracks(tracks, ctx, g) ==
    LET seen == {taken(tracks)[i] : i \in DOMAIN taken(tracks)}
        ids == {t.id : t \in {u \in seen : u.kind = "track"}}
    IN  [observed |-> g.observed \cup {<<k, ctx>> : k \in ids},
         first_ctx |-> [k \in (DOMAIN g.first_ctx) \cup ids |->
                          IF k \in DOMAIN g.first_ctx THEN g.first_ctx[k] ELSE ctx],
         skipped |-> g.skipped \cup
                     {t.id : t \in {u \in seen : u.kind # "track" /\ "id" \in DOMAIN u}}]

RECURSIVE observe_playlists(_, _)
observe_playlists(playlists, g) ==
    IF playlists = <<>> THEN g
    ELSE LET g1 == observe_tracks(Head(playlists).tracks, Some(Head(playlists).title), g)
         IN  IF raises_in(Head(playlists).tracks) THEN g1
             ELSE observe_playlists(Tail(playlists), g1)

History == [observed |-> observed, first_ctx |-> first_ctx, skipped |-> skipped]

\* ------------------------------------------------------- the amount labels

\* A variant that adds up the rows the table shows.
update_value_counters_shown(frame) ==
    LET t == value_totals(SelectSeq(frame,
                 LAMBDA row : \E i \in DOMAIN table : table[i] = str_int(row.id)))
    IN  [downloaded |-> format_money(t.downloaded),
         remaining |-> format_money(t.remaining)]

\* _update_value_counters, lines 518-533: the amounts the two labels show.
update_value_counters(frame) ==
    LET t == value_totals(frame)
    IN  [downloaded |-> format_money(t.downloaded),
         remaining |-> format_money(t.remaining)]

\* ------------------------------------------------------- initial values

\* DJApp.__init__ lines 264-267 and compose: the filters pass everything, the
\* table has no row and the two amount labels are empty.
ViewInit ==
    /\ current_playlist = ALL_PLAYLISTS
    /\ current_purchased = ALL_PURCHASED
    /\ current_processed = ALL_PROCESSED
    /\ track_name_query = <<>>
    /\ table = <<>>
    /\ counters = [downloaded |-> <<>>, remaining |-> <<>>]

\* No run of the script is repeated.
RepeatIdle ==
    /\ account = None
    /\ runs = 0

\* ---------------------------------------------------------- one pass, stepwise

PassInit ==
    /\ disk \in PriorCatalogs
    /\ phase = "read"
    /\ old_df = <<>>
    /\ old_tracks = <<>>
    /\ all_tracks = <<>>
    /\ pages = 0
    /\ observed = {}
    /\ first_ctx = <<>>
    /\ skipped = {}
    /\ df = <<>>
    /\ status = ""
    /\ app = "off"
    /\ modal = None
    /\ workers = EmptyBag
    /\ edits = 0
    /\ last_edit = [k \in TrackIds |-> None]
    /\ typed = None
    /\ ViewInit
    /\ RepeatIdle

\* Lines 90-113.
ReadOld ==
    /\ phase = "read"
    /\ old_df' = disk
    /\ old_tracks' = load_old_tracks(disk)
    /\ phase' = "liked"
    /\ UNCHANGED <<disk, all_tracks, pages, observed, first_ctx, skipped, app_vars, repeat_vars>>

\* Lines 118-134: a response of the liked-tracks requests arrives.
LikedResponse(resp) ==
    /\ phase = "liked"
    /\ has_next(resp) => pages < MaxPages
    /\ LET r == liked_step(resp, all_tracks, old_tracks)
           g == IF has_next(resp)
                THEN observe_tracks(resp.json.collection, None, History)
                ELSE History
       IN  /\ all_tracks' = r.all_tracks
           /\ phase' = IF r.raised THEN "failed"
                       ELSE IF has_next(resp) THEN "liked" ELSE "playlists"
           /\ pages' = IF has_next(resp) THEN pages + 1 ELSE 0
           /\ observed' = g.observed
           /\ first_ctx' = g.first_ctx
           /\ skipped' = g.skipped
    /\ UNCHANGED <<disk, old_df, old_tracks, app_vars, repeat_vars>>

\* Lines 137-155: a response of the playlists requests arrives.
PlaylistsResponse(resp) ==
    /\ phase = "playlists"
    /\ has_next(resp) => pages < MaxPages
    /\ LET r == playlists_step(resp, all_tracks, old_tracks)
           g == IF has_next(resp)
                THEN observe_playlists(resp.json.collection, History)
                ELSE History
       IN  /\ all_tracks' = r.all_tracks
           /\ phase' = IF r.raised THEN "failed"
                       ELSE IF has_next(resp) THEN "playlists" ELSE "write"
           /\ pages' = IF has_next(resp) THEN pages + 1 ELSE 0
           /\ observed' = g.observed
           /\ first_ctx' = g.first_ctx
           /\ skipped' = g.skipped
    /\ UNCHANGED <<disk, old_df, old_tracks, app_vars, repeat_vars>>

\* requests.get or .json() raises (no connection, a body that is not JSON):
\* the script ends with a traceback and a non-zero exit status.
RequestRaises ==
    /\ phase \in {"liked", "playlists"}
    /\ phase' = "failed"
    /\ UNCHANGED <<disk, old_df, old_tracks, all_tracks, pages, observed, first_ctx, skipped, app_vars, repeat_vars>>

\* Lines 156-160.
WriteParquet ==
    /\ phase = "write"
    /\ disk' = all_tracks
    /\ phase' = "done"
    /\ UNCHANGED <<old_df, old_tracks, all_tracks, pages, observed, first_ctx,
                   skipped, app_vars, repeat_vars>>

PassNext ==
    \/ ReadOld
    \/ \E resp \in LikedResponses : LikedResponse(resp)
    \/ \E resp \in PlaylistsResponses : PlaylistsResponse(resp)
    \/ RequestRaises
    \/ WriteParquet

SpecPass == PassInit /\ [][PassNext]_vars

\* ------------------------------------------------------- the application

\* The pass variables stay as a pass not yet started leaves them.
PassIdle ==
    /\ phase = "read"
    /\ old_df = <<>>
    /\ old_tracks = <<>>
    /\ all_tracks = <<>>
    /\ pages = 0
    /\ observed = {}
    /\ first_ctx = <<>>
    /\ skipped = {}

pass_locals ==
    <<phase, old_df, old_tracks, all_tracks, pages, observed, first_ctx, skipped>>

\* DJApp.__init__ (lines 258-267) on a catalog a first run of the script wrote.
Init ==
    /\ disk \in InitialCatalogs
    /\ df = ensure_processed_column(disk)
    /\ status = ""
    /\ app = "init"
    /\ modal = None
    /\ workers = EmptyBag
    /\ edits = 0
    /\ last_edit = [k \in TrackIds |-> None]
    /\ typed = None
    /\ ViewInit
    /\ RepeatIdle
    /\ PassIdle

\* A worker of _refresh_soundcloud_data as the call creates it.  The worker
\* is a thread: exclusive=True marks the earlier workers cancelled, and the
\* function never asks whether it is, so their threads run on to the end.
\* The workers are told apart by nothing but their state: they are kept as a
\* bag of worker states.
NewWorker ==
    [pc |-> "start", old_tracks |-> <<>>, all_tracks |-> <<>>,
     saw_error |-> FALSE, own |-> FALSE]

\* A worker that has returned.
Returned ==
    [pc |-> "done", old_tracks |-> <<>>, all_tracks |-> <<>>,
     saw_error |-> FALSE, own |-> FALSE]

Running == BagToSet(workers)

Step(w, w2) == (workers (-) SetToBag({w})) (+) SetToBag({w2})

\* on_mount, lines 659-670.
OnMount ==
    /\ app = "init"
    /\ app' = "running"
    /\ table' = populate_table(df, current_playlist, current_purchased,
                               current_processed, track_name_query)
    /\ counters' = update_value_counters(df)
    /\ workers' = workers (+) SetToBag({NewWorker})
    /\ UNCHANGED <<disk, df, status, modal, edits, last_edit, pass_locals, repeat_vars,
                   typed, current_playlist, current_purchased, current_processed, track_name_query>>

\* on_button_pressed, lines 705-708: the refresh button (the edit dialog, a
\* modal screen, keeps the button out of reach while it is open).
RefreshPressed ==
    /\ app = "running"
    /\ modal = None
    /\ BagCardinality(workers) < 1 + MaxRefresh
    /\ workers' = workers (+) SetToBag({NewWorker})
    /\ UNCHANGED <<disk, df, status, app, modal, edits, last_edit, pass_locals, repeat_vars,
                 typed, view_vars>>

\* Lines 491-494, on the event loop by call_from_thread.
WorkerRefreshing(w) ==
    /\ app = "running"
    /\ w.pc = "start"
    /\ status' = "Refreshing"
    /\ workers' = Step(w, [w EXCEPT !.pc = "read"])
    /\ UNCHANGED <<disk, df, app, modal, edits, last_edit, pass_locals, repeat_vars,
                 typed, view_vars>>

\* create_new_df, lines 90-113, in the script's process.
SubRead(w) ==
    /\ w.pc = "read"
    /\ workers' = Step(w, [w EXCEPT !.pc = "fetch", !.old_tracks = load_old_tracks(disk)])
    /\ UNCHANGED <<disk, df, status, app, modal, edits, last_edit, pass_locals, repeat_vars,
                 typed, view_vars>>

\* create_new_df, lines 115-160: the requests, which touch nothing the
\* application or another run of the script can see, and at their end the
\* write of the catalog; a request or add_track that raises ends the script
\* with a non-zero exit status before the write.
SubFetch(w, remote) ==
    /\ w.pc = "fetch"
    /\ LET r == fetch_all(remote, w.old_tracks)
       IN  IF r.raised
           THEN /\ workers' = Step(w, [w EXCEPT !.pc = "exit1", !.old_tracks = <<>>])
                /\ disk' = disk
           ELSE /\ workers' = Step(w, [w EXCEPT !.pc = "exit0",
                                                !.old_tracks = <<>>,
                                                !.all_tracks = r.all_tracks,
                                                !.saw_error = r.saw_error])
                /\ disk' = r.all_tracks
    /\ UNCHANGED <<df, status, app, modal, edits, last_edit, pass_locals, repeat_vars,
                 typed, view_vars>>

\* Lines 503-513.
WorkerFailed(w) ==
    /\ app = "running"
    /\ w.pc = "exit1"
    /\ status' = "Refresh failed"
    /\ workers' = Step(w, Returned)
    /\ UNCHANGED <<disk, df, app, modal, edits, last_edit, pass_locals, repeat_vars,
                 typed, view_vars>>

\* Line 515: _reload_tracks_from_disk on the event loop.
WorkerReload(w) ==
    /\ app = "running"
    /\ w.pc = "exit0"
    /\ disk # <<>>
    /\ df' = ensure_processed_column(disk)
    /\ current_playlist' = IF current_playlist \in get_playlist_options(df')
                           THEN current_playlist ELSE ALL_PLAYLISTS
    /\ table' = populate_table(df', current_playlist', current_purchased,
                               current_processed, track_name_query)
    /\ counters' = update_value_counters(df')
    /\ workers' = Step(w, [w EXCEPT !.pc = "reloaded",
                                    !.own = (disk = w.all_tracks),
                                    !.all_tracks = <<>>,
                                    !.saw_error = FALSE])
    /\ UNCHANGED <<disk, status, app, modal, edits, last_edit, pass_locals, repeat_vars,
                   typed, current_purchased, current_processed, track_name_query>>

\* Line 515 on a catalog without columns (the script wrote no record):
\* _build_column_widths raises at get_column("title"), the worker fails and
\* the application exits.
WorkerReloadRaises(w) ==
    /\ app = "running"
    /\ w.pc = "exit0"
    /\ disk = <<>>
    /\ df' = <<>>
    /\ app' = "crashed"
    /\ modal' = None
    /\ workers' = Step(w, Returned)
    /\ UNCHANGED <<disk, status, edits, last_edit, pass_locals, repeat_vars,
                 typed, view_vars>>

\* Line 516.
WorkerComplete(w) ==
    /\ app = "running"
    /\ w.pc = "reloaded"
    /\ status' = "Refresh complete"
    /\ workers' = Step(w, Returned)
    /\ UNCHANGED <<disk, df, app, modal, edits, last_edit, pass_locals, repeat_vars,
                 typed, view_vars>>

\* on_data_table_row_selected and _open_editor_for_track, lines 672-686 and
\* 539-561, on a row of the table.
RowSelected(k) ==
    /\ app = "running"
    /\ modal = None
    /\ edits < MaxEdits
    /\ \E i \in DOMAIN table : table[i] = str_int(k)
    /\ matching_rows(df, str_int(k)) # {}
    /\ modal' = Some([track_id |-> str_int(k), error |-> FALSE])
    /\ typed' = None
    /\ UNCHANGED <<disk, df, status, app, workers, edits, last_edit, pass_locals, repeat_vars,
                   view_vars>>

\* A variant of Cancel that writes the catalog in memory to the file.
EditCancelledWriting ==
    /\ app = "running"
    /\ modal # None
    /\ modal' = None
    /\ disk' = df
    /\ UNCHANGED <<df, status, app, workers, edits, last_edit, pass_locals, repeat_vars,
                   typed, view_vars>>

\* EditTrackModal.on_button_pressed, Cancel, and _apply_track_edits on None.
EditCancelled ==
    /\ app = "running"
    /\ modal # None
    /\ modal' = None
    /\ UNCHANGED <<disk, df, status, app, workers, edits, last_edit, pass_locals, repeat_vars,
                   typed, view_vars>>

\* Save with a price text float() raises on: the error is shown, the dialog stays.
EditRejected(purchased, price_input, download_url_input) ==
    /\ app = "running"
    /\ modal # None
    /\ ~edit_save(purchased, price_input, download_url_input).dismissed
    /\ modal' = Some([Val(modal) EXCEPT !.error = TRUE])
    /\ typed' = Some(price_input)
    /\ UNCHANGED <<disk, df, status, app, workers, edits, last_edit, pass_locals,
                   repeat_vars, view_vars>>

\* A variant of Save that changes the catalog in memory and leaves the file.
EditSavedNoWrite(purchased, price_input, download_url_input) ==
    /\ app = "running"
    /\ modal # None
    /\ LET saved == edit_save(purchased, price_input, download_url_input)
           track_id == Val(modal).track_id
           frame == apply_track_edits(df, track_id, saved.result)
       IN  /\ saved.dismissed
           /\ df' = frame
           /\ last_edit' = [k \in TrackIds |->
                              IF str_int(k) = track_id /\ matching_rows(df, track_id) # {}
                              THEN Some([purchased |-> saved.result.purchased,
                                         price |-> saved.result.price,
                                         purchase_url |-> saved.result.download_url])
                              ELSE last_edit[k]]
    /\ table' = populate_table(df', current_playlist, current_purchased,
                               current_processed, track_name_query)
    /\ counters' = update_value_counters(df')
    /\ typed' = Some(price_input)
    /\ modal' = None
    /\ edits' = edits + 1
    /\ UNCHANGED <<disk, status, app, workers, pass_locals, repeat_vars,
                   current_playlist, current_purchased, current_processed, track_name_query>>

\* Save, and _apply_track_edits on the dialog's result (lines 563-626).
EditSaved(purchased, price_input, download_url_input) ==
    /\ app = "running"
    /\ modal # None
    /\ LET saved == edit_save(purchased, price_input, download_url_input)
           track_id == Val(modal).track_id
           frame == apply_track_edits(df, track_id, saved.result)
       IN  /\ saved.dismissed
           /\ df' = frame
           /\ disk' = frame
           /\ last_edit' = [k \in TrackIds |->
                              IF str_int(k) = track_id /\ matching_rows(df, track_id) # {}
                              THEN Some([purchased |-> saved.result.purchased,
                                         price |-> saved.result.price,
                                         purchase_url |-> saved.result.download_url])
                              ELSE last_edit[k]]
    /\ table' = populate_table(df', current_playlist, current_purchased,
                               current_processed, track_name_query)
    /\ counters' = update_value_counters(df')
    /\ typed' = Some(price_input)
    /\ modal' = None
    /\ edits' = edits + 1
    /\ UNCHANGED <<status, app, workers, pass_locals, repeat_vars,
                   current_playlist, current_purchased, current_processed, track_name_query>>

Next ==
    \/ OnMount
    \/ RefreshPressed
    \/ \E w \in Running : WorkerRefreshing(w)
    \/ \E w \in Running : SubRead(w)
    \/ \E w \in Running, remote \in Remotes : SubFetch(w, remote)
    \/ \E w \in Running : WorkerFailed(w)
    \/ \E w \in Running : WorkerReload(w)
    \/ \E w \in Running : WorkerReloadRaises(w)
    \/ \E w \in Running : WorkerComplete(w)
    \/ \E k \in TrackIds : RowSelected(k)
    \/ EditCancelled
    \/ \E t \in EditInputs :
          EditRejected(t.purchased, t.price_input, t.download_url_input)
    \/ \E t \in EditInputs :
          EditSaved(t.purchased, t.price_input, t.download_url_input)

Spec == Init /\ [][Next]_vars

\* ------------------------------------------------- the view of the catalog

\* Track 1 is liked and in playlist DH, track 2 is liked and in playlist H.
RemoteTwoPlaylists ==
    [liked |-> <<Page(<<TrackA>>, TRUE), Page(<<TrackB>>, TRUE), Page(<<>>, FALSE)>>,
     playlists |-> <<Page(<<[title |-> DH, tracks |-> <<TrackA2>>]>>, TRUE),
                     Page(<<[title |-> H, tracks |-> <<TrackB>>]>>, TRUE),
                     Page(<<>>, FALSE)>>]

\* The remote accounts of the refreshes of the view.
ViewRemotes == Remotes \cup {RemoteTwoPlaylists}

\* The values the three selects can offer (the playlist select offers those of
\* the catalog) and the texts typed in the search box.
PlaylistValues == {ALL_PLAYLISTS, DH, H}
PurchasedValues == {ALL_PURCHASED, PURCHASED_TRUE, PURCHASED_FALSE}
ProcessedValues == {ALL_PROCESSED, PROCESSED_TRUE, PROCESSED_FALSE}
Queries == {<<>>, <<" ", "A">>}

\* on_select_changed, lines 688-697, for the playlist select.
PlaylistSelected(value) ==
    /\ app = "running"
    /\ modal = None
    /\ value \in get_playlist_options(df)
    /\ current_playlist' = value
    /\ table' = populate_table(df, value, current_purchased, current_processed,
                               track_name_query)
    /\ UNCHANGED <<disk, df, status, app, modal, workers, edits, last_edit, typed,
                   current_purchased, current_processed, track_name_query, counters,
                   pass_locals, repeat_vars>>

\* on_select_changed for the purchased select.
PurchasedSelected(value) ==
    /\ app = "running"
    /\ modal = None
    /\ current_purchased' = value
    /\ table' = populate_table(df, current_playlist, value, current_processed,
                               track_name_query)
    /\ UNCHANGED <<disk, df, status, app, modal, workers, edits, last_edit, typed,
                   current_playlist, current_processed, track_name_query, counters,
                   pass_locals, repeat_vars>>

\* on_select_changed for the processed select.
ProcessedSelected(value) ==
    /\ app = "running"
    /\ modal = None
    /\ current_processed' = value
    /\ table' = populate_table(df, current_playlist, current_purchased, value,
                               track_name_query)
    /\ UNCHANGED <<disk, df, status, app, modal, workers, edits, last_edit, typed,
                   current_playlist, current_purchased, track_name_query, counters,
                   pass_locals, repeat_vars>>

\* on_input_changed, lines 699-703.
InputChanged(value) ==
    /\ app = "running"
    /\ modal = None
    /\ track_name_query' = value
    /\ table' = populate_table(df, current_playlist, current_purchased,
                               current_processed, value)
    /\ UNCHANGED <<disk, df, status, app, modal, workers, edits, last_edit, typed,
                   current_playlist, current_purchased, current_processed, counters,
                   pass_locals, repeat_vars>>

\* A refresh during which the user does nothing: _refresh_soundcloud_data from
\* its first line to its last, the script run in between.
RefreshRun(w, remote_account) ==
    /\ app = "running"
    /\ modal = None
    /\ w.pc = "start"
    /\ workers' = Step(w, Returned)
    /\ LET r == fetch_all(remote_account, load_old_tracks(disk))
       IN  IF r.raised
           THEN /\ status' = "Refresh failed"
                /\ UNCHANGED <<disk, df, app, view_vars>>
           ELSE IF r.all_tracks = <<>>
           THEN /\ disk' = <<>>
                /\ df' = <<>>
                /\ app' = "crashed"
                /\ status' = "Refreshing"
                /\ UNCHANGED view_vars
           ELSE /\ disk' = r.all_tracks
                /\ df' = ensure_processed_column(r.all_tracks)
                /\ current_playlist' = IF current_playlist \in get_playlist_options(df')
                                       THEN current_playlist ELSE ALL_PLAYLISTS
                /\ table' = populate_table(df', current_playlist', current_purchased,
                                           current_processed, track_name_query)
                /\ counters' = update_value_counters(df')
                /\ status' = "Refresh complete"
                /\ UNCHANGED <<app, current_purchased, current_processed,
                               track_name_query>>
    /\ UNCHANGED <<modal, edits, last_edit, typed, pass_locals, repeat_vars>>

ViewNext ==
    \/ OnMount
    \/ RefreshPressed
    \/ \E w \in Running, remote_account \in ViewRemotes : RefreshRun(w, remote_account)
    \/ \E value \in PlaylistValues : PlaylistSelected(value)
    \/ \E value \in PurchasedValues : PurchasedSelected(value)
    \/ \E value \in ProcessedValues : ProcessedSelected(value)
    \/ \E value \in Queries : InputChanged(value)
    \/ \E k \in TrackIds : RowSelected(k)
    \/ EditCancelled
    \/ \E t \in EditInputs :
          EditRejected(t.purchased, t.price_input, t.download_url_input)
    \/ \E t \in EditInputs :
          EditSaved(t.purchased, t.price_input, t.download_url_input)

SpecView == Init /\ [][ViewNext]_vars

\* ------------------------------------------------------- the edit dialog

\* DJApp.__init__ on a catalog a first run of the script wrote, or one that
\* passes and edits have left.
DialogInit ==
    /\ disk \in InitialCatalogs \cup (PriorCatalogs \ {<<>>})
    /\ df = ensure_processed_column(disk)
    /\ status = ""
    /\ app = "init"
    /\ modal = None
    /\ workers = EmptyBag
    /\ edits = 0
    /\ last_edit = [k \in TrackIds |-> None]
    /\ typed = None
    /\ ViewInit
    /\ RepeatIdle
    /\ PassIdle

\* The dialog used while the refresh started at mount has not come back.
DialogNext ==
    \/ OnMount
    \/ \E k \in TrackIds : RowSelected(k)
    \/ EditCancelled
    \/ \E t \in DialogInputs :
          EditRejected(t.purchased, t.price_input, t.download_url_input)
    \/ \E t \in DialogInputs :
          EditSaved(t.purchased, t.price_input, t.download_url_input)

SpecDialog == DialogInit /\ [][DialogNext]_vars

\* ------------------------------------------- the script, run after run

\* The script is run again and again, nothing else touching the catalog,
\* and the remote account answers every run the same.
RepeatInit ==
    /\ disk \in PriorCatalogs
    /\ account \in Accounts
    /\ runs = 0
    /\ PassIdle
    /\ df = <<>>
    /\ status = ""
    /\ app = "off"
    /\ modal = None
    /\ workers = EmptyBag
    /\ edits = 0
    /\ last_edit = [k \in TrackIds |-> None]
    /\ typed = None
    /\ ViewInit

\* create_new_df, lines 89-160, from its read of the catalog to its write.
RunScript ==
    /\ runs < MaxRuns
    /\ runs' = runs + 1
    /\ LET r == fetch_all(account, load_old_tracks(disk))
       IN  /\ old_df' = disk
           /\ old_tracks' = load_old_tracks(disk)
           /\ all_tracks' = r.all_tracks
           /\ phase' = IF r.raised THEN "failed" ELSE "done"
           /\ disk' = IF r.raised THEN disk ELSE r.all_tracks
    /\ UNCHANGED <<pages, observed, first_ctx, skipped, account, app_vars>>

RepeatNext == RunScript

SpecRepeat == RepeatInit /\ [][RepeatNext]_vars

\* ------------------------------------------------------------------ claims

Owned(row) ==
    [purchased |-> row.purchased, price |-> row.price, purchase_url |-> row.purchase_url]

\* The rule of the processed field, stated on one row.
ProcessedRule(row) ==
    row.processed =
        (/\ row.price # None
         /\ row.purchase_url # None
         /\ \E i \in DOMAIN Val(row.purchase_url) : Val(row.purchase_url)[i] # " ")

\* At least one owned field of the row is not at its default.
NonDefaultOwned(row) ==
    \/ row.purchased
    \/ row.price # None
    \/ /\ row.purchase_url # None
       /\ \E i \in DOMAIN Val(row.purchase_url) : Val(row.purchase_url)[i] # " "

\* How many times a label occurs among the names of a playlists value.
Occurrences(label, playlists_value) ==
    Cardinality({i \in DOMAIN playlist_names(playlists_value) :
                    playlist_names(playlists_value)[i] = label})

\* The label of a collection context: liked for the liked tracks, else the
\* title of the playlist.
LabelOf(ctx) == IF ctx = None THEN LIKED ELSE Val(ctx)

\* C1: in the catalog in memory and in the persisted catalog, after every
\* reconciliation pass and every edit, every record has processed equal to
\* (price is not null and purchase_url is non-null and non-blank).
C1_ProcessedInvariant ==
    /\ \A i \in DOMAIN df : ProcessedRule(df[i])
    /\ \A i \in DOMAIN disk : ProcessedRule(disk[i])

\* C1 witness: an edit was saved, a pass read it, wrote the catalog and the
\* application reloaded it; the catalog holds a processed record and a record
\* whose purchase_url is blank.
C1_Witness ==
    /\ status = "Refresh complete"
    /\ edits > 0
    /\ df = disk
    /\ \E i, j \in DOMAIN df :
          /\ df[i].processed
          /\ df[i].price = Some(5)
          /\ ~df[j].processed
          /\ df[j].purchase_url = Some(<<" ">>)

\* C2 as claimed: every identifier of the prior catalog that the pass
\* reintroduces has the prior catalog's purchased, price and purchase_url.
C2_OwnedPreservedAlways ==
    \A k \in Keys(old_df) \cap Keys(all_tracks) :
        Owned(Lookup(all_tracks, k)) = Owned(Lookup(old_df, k))

\* C2 as amended: purchased and price are the prior catalog's for every
\* identifier the pass reintroduces, and purchase_url is the prior catalog's
\* whenever the prior record has at least one owned field off its default.
C2_OwnedPreserved ==
    \A k \in Keys(old_df) \cap Keys(all_tracks) :
        /\ Lookup(all_tracks, k).purchased = Lookup(old_df, k).purchased
        /\ Lookup(all_tracks, k).price = Lookup(old_df, k).price
        /\ NonDefaultOwned(Lookup(old_df, k)) =>
              Lookup(all_tracks, k).purchase_url = Lookup(old_df, k).purchase_url

\* C2 witness: the pass has written a catalog in which track 1, created from
\* the remote record that carries the purchase_url "v", has the prior
\* catalog's purchased, price and purchase_url "u".
C2_Witness ==
    /\ phase = "done"
    /\ 1 \in Keys(old_df) /\ 1 \in Keys(disk)
    /\ Lookup(disk, 1).title = Some(<<"A">>)
    /\ Owned(Lookup(old_df, 1)) =
          [purchased |-> TRUE, price |-> Some(5), purchase_url |-> Some(<<"u">>)]
    /\ Owned(Lookup(disk, 1)) = Owned(Lookup(old_df, 1))

\* C3: once every refresh has completed, each record that is still in the
\* catalog has the owned values of the last edit saved on it, in memory and
\* in the persisted catalog.  Stated for the edits that leave an owned field
\* off its default, which a pass that read them carries over.
C3_EditNeverLost ==
    (/\ app = "running"
     /\ status = "Refresh complete"
     /\ \A w \in Running : w.pc = "done")
    => \A k \in TrackIds :
          (/\ last_edit[k] # None
           /\ NonDefaultOwned(Val(last_edit[k]))
           /\ k \in Keys(df)
           /\ k \in Keys(disk))
          => /\ Owned(Lookup(df, k)) = Val(last_edit[k])
             /\ Owned(Lookup(disk, k)) = Val(last_edit[k])

\* C4: at most one run of the sync script is in flight (started and not yet
\* exited) at any time.
C4_OneReconciliationInFlight ==
    \A w1, w2 \in {w \in Running : w.pc \in {"read", "fetch"}} :
        w1 = w2 /\ CopiesIn(w1, workers) = 1

\* C5: a run of the script in which a request was answered with a
\* non-success status writes no catalog.
C5_NoWriteAfterFailedFetch ==
    \A w \in Running : ~(w.saw_error /\ w.pc = "exit0")

\* C6: the catalog in memory and the persisted catalog are the same in every
\* state the event loop can act in, and the catalog a worker reloads is the
\* one its own run of the script wrote.
C6_AtomicSwap ==
    app = "running" =>
        /\ df = disk
        /\ \A w \in Running : w.pc = "reloaded" => w.own

\* C7: every identifier of the prior catalog is in the catalog the pass writes.
C7_Additive ==
    phase = "done" => Keys(old_df) \subseteq Keys(disk)

\* C8: every identifier carried by a track record handed to add_track is the
\* identifier of exactly one record of the working catalog (and of the
\* catalog written), and every record comes from a track record.
C8_ExactlyOnce ==
    /\ \A p \in observed :
          Cardinality({i \in DOMAIN all_tracks : all_tracks[i].id = p[1]}) = 1
    /\ \A i \in DOMAIN all_tracks : \E p \in observed : p[1] = all_tracks[i].id
    /\ phase = "done" => disk = all_tracks

\* C8 witness: the pass has written its catalog; track 1 was observed in the
\* liked tracks and in a playlist, and a record of another kind carrying the
\* identifier 2 was handed over and left no entry.
C8_Witness ==
    /\ phase = "done"
    /\ {<<1, None>>, <<1, Some(DH)>>} \subseteq observed
    /\ 1 \in Keys(disk)
    /\ 2 \in skipped
    /\ 2 \notin Keys(disk)

\* C9: the playlists of a record name the label of every context the track
\* was observed in, each exactly once.  Stated for the tracks first observed
\* in the liked tracks, whose first label does not depend on the seeding.
C9_LabelsAccumulate ==
    \A p \in observed :
        first_ctx[p[1]] = None =>
            Occurrences(LabelOf(p[2]), Lookup(all_tracks, p[1]).playlists) = 1

\* C10: the first label of a record is the label of the context the track
\* was first observed in, and a track observed in playlists only does not
\* carry the label liked.
C10_SeedLabel ==
    \A k \in Keys(all_tracks) :
        /\ Head(playlist_names(Lookup(all_tracks, k).playlists)) = LabelOf(first_ctx[k])
        /\ (\A p \in observed : p[1] = k => p[2] # None) =>
              Occurrences(LIKED, Lookup(all_tracks, k).playlists) = 0

\* C11: in the catalog a pass writes, every record whose identifier was in
\* the prior catalog still names every label its prior record named.
C11_LabelsNeverPruned ==
    phase = "done" =>
        \A k \in Keys(old_df) \cap Keys(disk) :
            \A i \in DOMAIN playlist_names(Lookup(old_df, k).playlists) :
                Occurrences(playlist_names(Lookup(old_df, k).playlists)[i],
                            Lookup(disk, k).playlists) >= 1

\* C12: a run of the script on the catalog an earlier run against the same
\* remote account wrote writes that catalog again: the same records in the
\* same order with the same values, and no label twice in a playlists value.
C12_Idempotent ==
    (runs >= 2 /\ phase = "done") =>
        /\ disk = old_df
        /\ \A i \in DOMAIN disk :
              \A j \in DOMAIN playlist_names(disk[i].playlists) :
                  Occurrences(playlist_names(disk[i].playlists)[j],
                              disk[i].playlists) = 1

\* C12 witness: the second run has written, over a catalog of two records
\* the first run made of another catalog, the same two records, track 1
\* named in the liked tracks and in a playlist.
C12_Witness ==
    /\ runs = 2
    /\ phase = "done"
    /\ disk = old_df
    /\ Keys(disk) = {1, 2}
    /\ Lookup(disk, 1).playlists = LIKED \o SEP \o DH
    /\ Lookup(disk, 2).price = Some(5)

\* The step is a Save the dialog was dismissed with: _apply_track_edits ran
\* on a result, on the identifier the dialog was opened on.
EditStep == modal # None /\ edits' = edits + 1

\* C13: an edit applied to the record with identifier A leaves every field of
\* every record with another identifier unchanged, in the catalog in memory
\* and in the catalog the edit writes; no record is added or removed.
C13_EditIsolation ==
    [][EditStep =>
         /\ Len(df') = Len(df)
         /\ disk' = df'
         /\ \A i \in DOMAIN df :
               str_int(df[i].id) # Val(modal).track_id => df'[i] = df[i]]_vars

\* C13 witness: an edit was saved on track 1 of a catalog of two records
\* and priced and bought track 1; track 2 is neither priced nor bought.
C13_Witness ==
    /\ edits = 1
    /\ Keys(df) = {1, 2}
    /\ disk = df
    /\ last_edit[1] # None
    /\ last_edit[2] = None
    /\ Lookup(df, 1).purchased
    /\ Lookup(df, 1).price = Some(5)
    /\ ~Lookup(df, 2).purchased
    /\ Lookup(df, 2).price = None

\* C14: an edit on a record of the catalog sets purchased, price and
\* purchase_url to the values the dialog was dismissed with, whatever the old
\* values were, sets processed by the rule, and leaves the record's id, title,
\* artist, genre, soundcloud_url and playlists as they were.
C14_EditSetsOwnedFields ==
    [][EditStep =>
         \A k \in TrackIds :
            (str_int(k) = Val(modal).track_id /\ HasKey(df, k)) =>
               /\ last_edit'[k] # None
               /\ HasKey(df', k)
               /\ Owned(Lookup(df', k)) = Val(last_edit'[k])
               /\ ProcessedRule(Lookup(df', k))
               /\ Lookup(df', k) =
                     [Lookup(df, k) EXCEPT !.purchased = Lookup(df', k).purchased,
                                           !.price = Lookup(df', k).price,
                                           !.purchase_url = Lookup(df', k).purchase_url,
                                           !.processed = Lookup(df', k).processed]]_vars

\* C14 witness: the edit saved on track 1 gave no URL and no price, and the
\* record has neither, is purchased and not processed, with its title kept.
C14_Witness ==
    /\ edits = 1
    /\ HasKey(df, 1)
    /\ last_edit[1] = Some([purchased |-> TRUE, price |-> None, purchase_url |-> None])
    /\ Owned(Lookup(df, 1)) = Val(last_edit[1])
    /\ ~Lookup(df, 1).processed
    /\ Lookup(df, 1).title = Some(<<"o", "l", "d">>)
    /\ Lookup(disk, 1) = Lookup(df, 1)

\* C15: an edit whose target identifier is not in the catalog is rejected:
\* _apply_track_edits never runs to its end on such an identifier.
C15_AbsentTargetRejected ==
    [][EditStep => matching_rows(df, Val(modal).track_id) # {}]_vars

\* The step is a Save the dialog answered with its error text.
RejectStep ==
    /\ modal # None
    /\ modal' # None
    /\ Val(modal').error
    /\ (~Val(modal).error \/ typed' # typed)

\* C16: a Save whose price text does not parse as a number is rejected before
\* anything is changed: the dialog stays open with its error, no result is
\* handed to _apply_track_edits, and the catalog in memory, the persisted
\* catalog, the table and the totals are unchanged; and _apply_track_edits
\* only ever runs on an empty price text or on one that parses.
C16_UnparseableRejected ==
    [][/\ RejectStep =>
             /\ float_raises(strip(Val(typed')))
             /\ UNCHANGED <<df, disk, edits, last_edit, table, counters>>
       /\ EditStep =>
             \/ strip(Val(typed')) = <<>>
             \/ ~float_raises(strip(Val(typed')))]_vars

\* C16 witness: the dialog shows its error after a Save with the price text
\* "5x"; no edit was applied and the catalogs are the ones of the start.
C16_Witness ==
    /\ modal # None
    /\ Val(modal).error
    /\ typed = Some(<<"5", "x">>)
    /\ edits = 0
    /\ disk \in PriorCatalogs
    /\ df = ensure_processed_column(disk)
    /\ \A k \in TrackIds : last_edit[k] = None

\* C17: every price an edit hands to _apply_track_edits from a price text is
\* a finite number.
C17_PriceFinite ==
    \A k \in TrackIds : last_edit[k] # None => Val(last_edit[k]).price # Some(Inf)

\* The sum of the prices of the rows of a set, a row without price counting
\* for nothing.
RECURSIVE SumOfPrices(_, _)
SumOfPrices(frame, rows) ==
    IF rows = {} THEN 0
    ELSE LET i == CHOOSE j \in rows : TRUE
             price == IF frame[i].price = None THEN 0 ELSE Val(frame[i].price)
         IN  fadd(price, SumOfPrices(frame, rows \ {i}))

\* C18: while the application runs, whatever the filters, the edits and the
\* reloads so far, the purchased total shown is the sum of the prices of all
\* purchased records of the catalog and the remaining total the sum over all
\* the others, a null price counting as zero.
C18_TotalsOverWholeCatalog ==
    app = "running" =>
        /\ counters.downloaded =
              format_money(SumOfPrices(df, {i \in DOMAIN df : df[i].purchased}))
        /\ counters.remaining =
              format_money(SumOfPrices(df, {i \in DOMAIN df : ~df[i].purchased}))

\* C18 witness: after an edit that priced and bought track 1, a refresh that
\* reloaded the catalog and a filter that hides the purchased records, the
\* table shows only track 2 and the purchased total is still 5.00.
C18_Witness ==
    /\ app = "running"
    /\ status = "Refresh complete"
    /\ edits = 1
    /\ current_purchased = PURCHASED_FALSE
    /\ Keys(df) = {1, 2}
    /\ Lookup(df, 1).purchased
    /\ Lookup(df, 1).price = Some(5)
    /\ table = <<str_int(2)>>
    /\ counters.downloaded = <<"5", ".", "0", "0">>
    /\ counters.remaining = <<"0", ".", "0", "0">>

\* The record is accepted by each of the four predicates of the view.
AcceptedByAll(row) ==
    /\ in_playlist(row.playlists, current_playlist)
    /\ matches_purchased(row.purchased, current_purchased)
    /\ matches_processed(row.processed, current_processed)
    /\ matches_track_name(row.title, track_name_query)

\* C19: while the application runs, a record of the catalog is in the table
\* if and only if the playlist filter, the purchased filter, the processed
\* filter and the title query all accept it; each record is there once.
C19_FilterConjunction ==
    app = "running" =>
        /\ \A i \in DOMAIN df :
              AcceptedByAll(df[i]) <=> \E j \in DOMAIN table : table[j] = str_int(df[i].id)
        /\ Len(table) = Cardinality({i \in DOMAIN df : AcceptedByAll(df[i])})

\* C19 witness: the playlist filter is DH and the purchased filter is "not
\* purchased"; track 1 is in DH but purchased, track 2 is not purchased but
\* in H and not in DH, and the table is empty.
C19_Witness ==
    /\ app = "running"
    /\ current_playlist = DH
    /\ current_purchased = PURCHASED_FALSE
    /\ Keys(df) = {1, 2}
    /\ Occurrences(DH, Lookup(df, 1).playlists) = 1
    /\ Lookup(df, 1).purchased
    /\ Occurrences(DH, Lookup(df, 2).playlists) = 0
    /\ Occurrences(H, Lookup(df, 2).playlists) = 1
    /\ ~Lookup(df, 2).purchased
    /\ table = <<>>

\* C20: a record without identifier in a page is skipped and the pass goes
\* on: no response whose records are handed to add_track ends the pass.
C20_NoIdSkipped ==
    [][(phase \in {"liked", "playlists"} /\ pages' = pages + 1) => phase' # "failed"]_vars

\* C21: within a pass, a record of all_tracks, once created, keeps its title,
\* artist, genre, soundcloud_url, purchased, price, purchase_url and processed
\* whatever is observed later; only its playlists value may change, and only
\* by text appended to it.
C21_FirstSeenWins ==
    [][\A k \in Keys(all_tracks) :
          /\ HasKey(all_tracks', k)
          /\ Lookup(all_tracks', k) =
                [Lookup(all_tracks, k) EXCEPT !.playlists = Lookup(all_tracks', k).playlists]
          /\ Len(Lookup(all_tracks', k).playlists) >= Len(Lookup(all_tracks, k).playlists)
          /\ SubSeq(Lookup(all_tracks', k).playlists, 1,
                    Len(Lookup(all_tracks, k).playlists)) = Lookup(all_tracks, k).playlists]_vars

\* C21 witness: track 1 was created from the liked tracks with the title and
\* the genre delivered there, and was observed again in playlist DH: the
\* label is appended and the title and the genre are those of the creation.
C21_Witness ==
    /\ phase = "done"
    /\ HasKey(disk, 1)
    /\ 1 \in DOMAIN first_ctx
    /\ first_ctx[1] = None
    /\ <<1, Some(DH)>> \in observed
    /\ Lookup(disk, 1).title = Some(<<"A">>)
    /\ Lookup(disk, 1).genre = Some("house")
    /\ Lookup(disk, 1).playlists = LIKED \o SEP \o DH

\* The remote track records a record of the catalog can have been created
\* from: those with its identifier and its title.
CreatedFrom(rec) ==
    {t \in RemoteTracks : /\ t.kind = "track"
                          /\ "id" \in DOMAIN t
                          /\ t.id = rec.id
                          /\ Get(t, "title") = rec.title}

\* C22: a record created in the pass for an identifier the prior catalog does
\* not hold, or holds with all owned fields at their defaults, is not
\* purchased, has no price, and has the purchase_url of the remote record it
\* was created from, null when that record carries none.
C22_DefaultsForNew ==
    \A k \in Keys(all_tracks) :
        (~HasKey(old_df, k) \/ ~NonDefaultOwned(Lookup(old_df, k))) =>
            /\ ~Lookup(all_tracks, k).purchased
            /\ Lookup(all_tracks, k).price = None
            /\ \E t \in CreatedFrom(Lookup(all_tracks, k)) :
                  Lookup(all_tracks, k).purchase_url = Get(t, "purchase_url")

\* C22 witness: the prior catalog holds track 1 alone, unpurchased, without
\* price and with an empty purchase_url; the catalog written has track 1 with
\* the remote purchase_url and the new track 2 with the one its remote record
\* carries, both unpurchased and without price.
C22_Witness ==
    /\ phase = "done"
    /\ Keys(old_df) = {1}
    /\ Owned(Lookup(old_df, 1)) =
          [purchased |-> FALSE, price |-> None, purchase_url |-> Some(<<>>)]
    /\ Keys(disk) = {1, 2}
    /\ Owned(Lookup(disk, 1)) =
          [purchased |-> FALSE, price |-> None, purchase_url |-> Some(<<"v">>)]
    /\ Owned(Lookup(disk, 2)) =
          [purchased |-> FALSE, price |-> None, purchase_url |-> Some(<<" ">>)]

\* The identifiers of the track records of a list.
TrackIdsOf(tracks) ==
    {tracks[i].id : i \in {j \in DOMAIN tracks :
                              tracks[j].kind = "track" /\ "id" \in DOMAIN tracks[j]}}

\* The identifiers of the tracks the remote account returns, in any page of
\* the liked tracks or in any playlist of any page of the playlists.
FetchedIds(remote) ==
    UNION {TrackIdsOf(remote.liked[i].json.collection) :
              i \in {j \in DOMAIN remote.liked :
                        "collection" \in DOMAIN remote.liked[j].json}}
    \cup
    UNION {UNION {TrackIdsOf(remote.playlists[i].json.collection[n].tracks) :
                     n \in DOMAIN remote.playlists[i].json.collection} :
              i \in {j \in DOMAIN remote.playlists :
                        "collection" \in DOMAIN remote.playlists[j].json}}

\* C23: when a run of the script has written its catalog, every track
\* identifier of every page the remote account returned, the last page of
\* each collection included, is in the catalog.
C23_EveryPageReconciled ==
    phase = "done" =>
        \A k \in FetchedIds(account) : HasKey(disk, k)

\* C24: every edit _apply_track_edits applies writes the whole catalog in
\* memory to the file: right after the edit the persisted catalog is the
\* catalog in memory, record for record, whatever the file held before.
C24_EditWritesWholeCatalog ==
    [][EditStep => disk' = df']_vars

\* C24 witness: the script of the only refresh has written a catalog with
\* track 1 alone and has exited; the edit saved on track 2 since then has
\* written the two records of the catalog in memory over it.
C24_Witness ==
    /\ edits = 1
    /\ last_edit[2] # None
    /\ Keys(df) = {1, 2}
    /\ disk = df
    /\ \E w \in Running :
          /\ workers = SetToBag({w})
          /\ w.pc = "exit0"
          /\ Keys(w.all_tracks) = {1}

\* The step closes the dialog without a result, the application running on:
\* Cancel.
CancelStep == modal # None /\ modal' = None /\ edits' = edits /\ app' = "running"

\* C25: cancelling the edit dialog changes no field of any record, does not
\* write the file, and leaves the filters, the table and the totals as they
\* were.
C25_CancelIsNoOp ==
    [][CancelStep => UNCHANGED <<df, disk, last_edit, view_vars>>]_vars

\* C25 witness: the dialog answered Save with its error and was cancelled
\* while the file written by the script differs from the catalog in memory;
\* no edit was applied and the file is still the script's.
C25_Witness ==
    /\ app = "running"
    /\ modal = None
    /\ typed = Some(<<"x">>)
    /\ edits = 0
    /\ disk # df
    /\ \E w \in Running : w.pc = "exit0" /\ w.all_tracks = disk

====
